---- MODULE Spec2Model ----
(***************************************************************************)
(* Scheduling and retention core of postgres-s3-backups (src/src/backup.ts *)
(* and the entry point that follows it in the same file).                  *)
(*                                                                         *)
(* Times are integers in milliseconds, as Date.getTime() returns them,     *)
(* counted from an origin three weeks before the minute boundary Epoch.    *)
(* An absent Map entry / undefined is NoTime.                              *)
(***************************************************************************)
EXTENDS Integers, Sequences, FiniteSets, TLC

VARIABLES
    pc,               \* position of the single thread of control
    clock,            \* wall clock, ms
    runOnStartup,     \* env.RUN_ON_STARTUP
    singleShot,       \* env.SINGLE_SHOT_MODE
    retention,        \* env.BACKUP_RETENTION_COUNT
    store,            \* bucket: frequency -> its objects [key, lm], in listing order
    lastBackupTimes,  \* the module-level Map frequency -> Date
    result,           \* the Map getLastBackupTimes builds
    idx,              \* position of the for-of loops over BACKUP_INTERVALS
    cur,              \* frequency argument of the running runBackup
    bnow,             \* `now` of the running runBackup
    inLoop,           \* runBackup was called from the scheduler loop
    file,             \* the local archive of the running runBackup
    exitCode,         \* argument of process.exit, NoTime while running
    ticks,            \* iterations of the while(true) loop so far, over all restarts
    faults,           \* failures so far: rejections of collaborators, and crashes
    lag,              \* how late this host's timers fire, ms
    seedLog,          \* what getLastBackupTimes saw per frequency
    lastCheck,        \* the latest shouldRunBackup call of the loop
    lastRun,          \* outcome of the latest runBackup
    cleanupLog,       \* the latest cleanupOldBackups pass
    lastSuccess,      \* per frequency: `now` of the latest successful loop trigger
    lastFailed,       \* per frequency: the latest loop trigger failed
    seedSeen,         \* per frequency: the Map entry when seeding listed its prefix,
                      \* and how many objects that listing returned
    iter,             \* iterations of the while(true) loop of this process
    tickLog           \* the shouldRunBackup calls of this iteration and what came of them

vars == <<pc, clock, runOnStartup, singleShot, retention, store, lastBackupTimes,
          result, idx, cur, bnow, inLoop, file, exitCode, ticks, faults, lag,
          seedLog, lastCheck, lastRun, cleanupLog, lastSuccess, lastFailed,
          seedSeen, iter, tickLog>>

(***************************************************************************)
(* Bounds of the model                                                     *)
(***************************************************************************)
MaxTicks == 2
MaxFaults == 1
MaxRetention == 2
MaxInit == 3
MaxListing == 3

(***************************************************************************)
(* Environment: how long the collaborators take, and how late a timer may  *)
(* fire.  Epoch is a minute boundary.                                      *)
(***************************************************************************)
MinuteMs == 60 * 1000
Epoch == 3 * 7 * 24 * 60 * MinuteMs
DumpMs == 20 * 1000
UploadMs == 5 * 1000
SleepLags == {0, 3}
InitSpacing == 60 * MinuteMs
FreshMs == 90 * 1000
StartClocks == {Epoch - 30 * 1000}

NoTime == -1

(***************************************************************************)
(* BACKUP_INTERVALS, in declared order                                     *)
(***************************************************************************)
\* the intervals declared finest first
BACKUP_INTERVALS_FinestFirst ==
    << [frequency |-> "10min",  milliseconds |-> 10 * 60 * 1000],
       [frequency |-> "hourly", milliseconds |-> 60 * 60 * 1000],
       [frequency |-> "daily",  milliseconds |-> 24 * 60 * 60 * 1000],
       [frequency |-> "weekly", milliseconds |-> 7 * 24 * 60 * 60 * 1000] >>

BACKUP_INTERVALS ==
    << [frequency |-> "weekly", milliseconds |-> 7 * 24 * 60 * 60 * 1000],
       [frequency |-> "daily",  milliseconds |-> 24 * 60 * 60 * 1000],
       [frequency |-> "hourly", milliseconds |-> 60 * 60 * 1000],
       [frequency |-> "10min",  milliseconds |-> 10 * 60 * 1000] >>

BackupFrequency == {BACKUP_INTERVALS[i].frequency : i \in 1..Len(BACKUP_INTERVALS)}

\* BACKUP_INTERVALS.find(i => i.frequency === frequency)
FindInterval(frequency) ==
    BACKUP_INTERVALS[CHOOSE i \in 1..Len(BACKUP_INTERVALS) :
                        BACKUP_INTERVALS[i].frequency = frequency]

(***************************************************************************)
(* The sort of a listing                                                   *)
(***************************************************************************)
\* insert x behind every element that does not compare after it (stable)
InsertDesc(sorted, x) ==
    LET ahead == {i \in 1..Len(sorted) : sorted[i].lm >= x.lm}
        k == IF ahead = {} THEN 0 ELSE CHOOSE i \in ahead : \A j \in ahead : j <= i
    IN SubSeq(sorted, 1, k) \o <<x>> \o SubSeq(sorted, k + 1, Len(sorted))

RECURSIVE SortDescFrom(_, _, _)
SortDescFrom(contents, i, acc) ==
    IF i > Len(contents) THEN acc
    ELSE SortDescFrom(contents, i + 1, InsertDesc(acc, contents[i]))

\* Contents.sort((a, b) => b.LastModified - a.LastModified)
SortByLastModifiedDesc(contents) == SortDescFrom(contents, 1, <<>>)

\* sortedObjects.slice(n)
Slice(s, n) == SubSeq(s, n + 1, Len(s))

(***************************************************************************)
(* getLastBackupTimes: the value set for one frequency from its listing    *)
(***************************************************************************)
\* the first listed object instead of the newest
SeedValue_FirstListed(contents) ==
    IF Len(contents) > 0
    THEN contents[1].lm
    ELSE NoTime

SeedValue(contents) ==
    IF Len(contents) > 0
    THEN SortByLastModifiedDesc(contents)[1].lm
    ELSE NoTime

(***************************************************************************)
(* shouldRunBackup                                                         *)
(***************************************************************************)
\* the boundary excluded
shouldRunBackup_Strict(times, frequency, now) ==
    LET lastBackup == times[frequency] IN
    IF lastBackup = NoTime
    THEN TRUE
    ELSE now - lastBackup > FindInterval(frequency).milliseconds

\* a frequency with no entry taken as not due
shouldRunBackup_NoEntryNotDue(times, frequency, now) ==
    LET lastBackup == times[frequency] IN
    IF lastBackup = NoTime
    THEN FALSE
    ELSE now - lastBackup >= FindInterval(frequency).milliseconds

shouldRunBackup(times, frequency, now) ==
    LET lastBackup == times[frequency] IN
    IF lastBackup = NoTime
    THEN TRUE
    ELSE LET interval == FindInterval(frequency)
             timeSinceLastBackup == now - lastBackup
         IN timeSinceLastBackup >= interval.milliseconds

(***************************************************************************)
(* cleanupOldBackups: the objects the pass goes on to delete, in order     *)
(***************************************************************************)
\* the comparator the wrong way round: oldest first
objectsToDelete_OldestFirst(contents, retentionCount) ==
    LET sorted == SortByLastModifiedDesc(contents)
        n == Len(sorted)
    IN Slice([i \in 1..n |-> sorted[n + 1 - i]], retentionCount)

\* the slice taken of the listing as the store returned it
objectsToDelete_Unsorted(contents, retentionCount) ==
    Slice(contents, retentionCount)

\* one object too many kept
objectsToDelete_KeepOneMore(contents, retentionCount) ==
    Slice(SortByLastModifiedDesc(contents), retentionCount + 1)

objectsToDelete(contents, retentionCount) ==
    Slice(SortByLastModifiedDesc(contents), retentionCount)

\* (60 - now.getSeconds()) * 1000 - now.getMilliseconds()
waitMs(now) == (60 - ((now \div 1000) % 60)) * 1000 - (now % 1000)

NoCheck == [valid |-> FALSE, frequency |-> "", now |-> NoTime, last |-> NoTime,
            due |-> FALSE, success |-> NoTime, failed |-> FALSE]
NoRun == [valid |-> FALSE, frequency |-> "", outcome |-> "", loop |-> FALSE]
NoCleanup == [valid |-> FALSE, frequency |-> "", listFailed |-> FALSE, listed |-> <<>>,
              attempted |-> <<>>, threw |-> FALSE]
NoTimes == [f \in BackupFrequency |-> NoTime]
NoSeed == [f \in BackupFrequency |-> "none"]
NoneFailed == [f \in BackupFrequency |-> FALSE]
NoSeen == [f \in BackupFrequency |-> [count |-> NoTime, prior |-> NoTime]]

(***************************************************************************)
(* Initial states: a fresh process over a bucket with some history         *)
(***************************************************************************)
\* the buckets the process may start over: the prefixes that hold objects,
\* and those among them whose newest object is FreshMs short of one interval
\* old at Epoch (the newest object of the others is exactly one interval old)
InitHistories ==
    { [populated |-> {}, fresh |-> {}],
      [populated |-> {"hourly"}, fresh |-> {}],
      [populated |-> BackupFrequency, fresh |-> {}],
      [populated |-> BackupFrequency, fresh |-> {"weekly", "daily"}],
      [populated |-> BackupFrequency, fresh |-> BackupFrequency],
      [populated |-> {"weekly", "daily"}, fresh |-> {"weekly", "daily"}] }

\* the i-th newest object of frequency f: the newest one interval (less skew)
\* before Epoch, the others InitSpacing apart behind it
InitObject(f, i, skew) ==
    LET lm == Epoch - FindInterval(f).milliseconds - (i - 1) * InitSpacing + skew
    IN [key |-> lm - UploadMs, lm |-> lm]

\* the store lists a prefix in key order, so oldest first
InitObjects(f, k, skew) == [j \in 1..k |-> InitObject(f, k + 1 - j, skew)]

Init ==
    /\ pc = "main"
    /\ clock \in StartClocks
    /\ runOnStartup \in BOOLEAN
    /\ singleShot \in BOOLEAN
    /\ singleShot => ~runOnStartup
    /\ retention \in 0..MaxRetention
    /\ \E h \in InitHistories :
          store = [f \in BackupFrequency |->
                      InitObjects(f, IF f \in h.populated THEN MaxInit ELSE 0,
                                  IF f \in h.fresh THEN FreshMs ELSE 0)]
    /\ lastBackupTimes = NoTimes
    /\ result = NoTimes
    /\ idx = 1
    /\ cur = ""
    /\ bnow = NoTime
    /\ inLoop = FALSE
    /\ file = "absent"
    /\ exitCode = NoTime
    /\ ticks = 0
    /\ faults = 0
    /\ lag \in SleepLags
    /\ seedLog = NoSeed
    /\ lastCheck = NoCheck
    /\ lastRun = NoRun
    /\ cleanupLog = NoCleanup
    /\ lastSuccess = NoTimes
    /\ lastFailed = NoneFailed
    /\ seedSeen = NoSeen
    /\ iter = 0
    /\ tickLog = <<>>

(***************************************************************************)
(* main, tryBackup, backup                                                 *)
(***************************************************************************)
\* the first statements of runBackup(frequency), up to the try block
EnterRunBackup(frequency, loop) ==
    /\ pc' = "dump"
    /\ cur' = frequency
    /\ bnow' = clock
    /\ inLoop' = loop
    /\ file' = "absent"
    /\ lastRun' = NoRun
    /\ cleanupLog' = NoCleanup

\* where control goes when runBackup returns: to the next interval of the
\* loop, or back through backup and tryBackup into main
ReturnFromRunBackup ==
    IF inLoop
    THEN /\ pc' = IF idx < Len(BACKUP_INTERVALS) THEN "check" ELSE "sleep"
         /\ idx' = IF idx < Len(BACKUP_INTERVALS) THEN idx + 1 ELSE 1
         /\ exitCode' = exitCode
    ELSE IF singleShot
         THEN /\ pc' = "exited"
              /\ exitCode' = 0
              /\ idx' = idx
         ELSE /\ pc' = "seed"
              /\ idx' = 1
              /\ exitCode' = exitCode

Main ==
    /\ pc = "main"
    /\ IF runOnStartup \/ singleShot
       THEN /\ EnterRunBackup("10min", FALSE)
            /\ UNCHANGED idx
       ELSE /\ pc' = "seed"
            /\ idx' = 1
            /\ UNCHANGED <<cur, bnow, inLoop, file, lastRun, cleanupLog>>
    /\ UNCHANGED <<clock, runOnStartup, singleShot, retention, store, lastBackupTimes,
                   result, exitCode, ticks, faults, lag, seedLog, lastCheck,
                   lastSuccess, lastFailed, seedSeen, iter, tickLog>>

(***************************************************************************)
(* runBackup: dumpToFile, uploadToS3 (Upload, then cleanupOldBackups),     *)
(* deleteFile, lastBackupTimes.set; the catch block on any rejection       *)
(***************************************************************************)
\* the time recorded for every frequency
MarkSucceeded_AllFrequencies(times, frequency, now) == [f \in BackupFrequency |-> now]

\* the Map left alone after a success
MarkSucceeded_Forgotten(times, frequency, now) == times

\* lastBackupTimes.set(frequency, now)
MarkSucceeded(times, frequency, now) == [times EXCEPT ![frequency] = now]

\* the Map updated on the failure path too
OnBackupFailed_Marks(times, frequency, now) == [times EXCEPT ![frequency] = now]

\* the catch block of runBackup: logs, leaves the Map alone
OnBackupFailed(times, frequency, now) == times

\* the call the loop is waiting for has returned
CloseEntry(log, outcome) ==
    IF inLoop /\ Len(log) > 0 THEN [log EXCEPT ![Len(log)].outcome = outcome] ELSE log

\* runBackup without its catch: the rejection leaves the loop and
\* startBackupScheduler and reaches the catch of main
Failed_Escapes(stage) ==
    /\ lastRun' = [valid |-> TRUE, frequency |-> cur, outcome |-> stage, loop |-> inLoop]
    /\ tickLog' = CloseEntry(tickLog, stage)
    /\ lastBackupTimes' = lastBackupTimes
    /\ lastFailed' = IF inLoop THEN [lastFailed EXCEPT ![cur] = TRUE] ELSE lastFailed
    /\ pc' = "exited"
    /\ exitCode' = 1
    /\ idx' = idx

Failed(stage) ==
    /\ lastRun' = [valid |-> TRUE, frequency |-> cur, outcome |-> stage, loop |-> inLoop]
    /\ tickLog' = CloseEntry(tickLog, stage)
    /\ lastBackupTimes' = OnBackupFailed(lastBackupTimes, cur, bnow)
    /\ lastFailed' = IF inLoop THEN [lastFailed EXCEPT ![cur] = TRUE] ELSE lastFailed
    /\ ReturnFromRunBackup

DumpToFile ==
    /\ pc = "dump"
    /\ clock' = clock + DumpMs
    /\ \/ /\ file' = "present"
          /\ pc' = "upload"
          /\ UNCHANGED <<lastRun, lastBackupTimes, lastFailed, idx, exitCode, faults, tickLog>>
       \/ /\ faults < MaxFaults
          /\ faults' = faults + 1
          /\ file' \in {"absent", "present"}
          /\ Failed("dump")
    /\ UNCHANGED <<runOnStartup, singleShot, retention, store, result, cur, bnow, inLoop,
                   ticks, lag, seedLog, lastCheck, cleanupLog, lastSuccess, seedSeen, iter>>

\* Upload.done() of the key `${prefix}${frequency}/${name}`
PutObject(objects, key, lm) ==
    SelectSeq(objects, LAMBDA o : o.key # key) \o <<[key |-> key, lm |-> lm]>>

Upload ==
    /\ pc = "upload"
    /\ clock' = clock + UploadMs
    /\ \/ /\ store' = [store EXCEPT ![cur] = PutObject(@, bnow, clock')]
          /\ pc' = "cleanup"
          /\ UNCHANGED <<lastRun, lastBackupTimes, lastFailed, idx, exitCode, faults, tickLog>>
       \/ /\ faults < MaxFaults
          /\ faults' = faults + 1
          /\ store' = store
          /\ Failed("upload")
    /\ UNCHANGED <<runOnStartup, singleShot, retention, result, cur, bnow, inLoop, file,
                   ticks, lag, seedLog, lastCheck, cleanupLog, lastSuccess, seedSeen, iter>>

Keys(objs) == [i \in 1..Len(objs) |-> objs[i].key]

\* DeleteObjectCommand for each of the first n objects of objs
DeleteFirst(objects, objs, n) ==
    SelectSeq(objects, LAMBDA o : \A i \in 1..n : objs[i].key # o.key)

\* the listing of another prefix than the one uploaded to
CleanupPrefix_Fixed(frequency) == BACKUP_INTERVALS[1].frequency

\* the cadence whose prefix `${prefix}${frequency}/` the listing names
CleanupPrefix(frequency) == frequency

cleanupOldBackups ==
    /\ pc = "cleanup"
    /\ \/ \* the listing rejects
          /\ faults < MaxFaults
          /\ faults' = faults + 1
          /\ cleanupLog' = [valid |-> TRUE, frequency |-> cur, listFailed |-> TRUE,
                            listed |-> <<>>, attempted |-> <<>>, threw |-> TRUE]
          /\ store' = store
          /\ Failed("cleanup")
       \/ LET dir == CleanupPrefix(cur)
              contents == store[dir]
              doomed == objectsToDelete(contents, retention)
          IN
            \/ \* no Contents, or every delete resolves
               /\ store' = [store EXCEPT ![dir] =
                               IF Len(contents) = 0 THEN @
                               ELSE DeleteFirst(@, doomed, Len(doomed))]
               /\ cleanupLog' = [valid |-> TRUE, frequency |-> cur, listFailed |-> FALSE,
                                 listed |-> contents,
                                 attempted |-> IF Len(contents) = 0 THEN <<>>
                                               ELSE Keys(doomed),
                                 threw |-> FALSE]
               /\ pc' = "unlink"
               /\ UNCHANGED <<lastRun, lastBackupTimes, lastFailed, idx, exitCode, faults, tickLog>>
            \/ \* the n-th delete rejects; nothing catches it inside the loop
               \E n \in 1..Len(doomed) :
                 /\ faults < MaxFaults
                 /\ faults' = faults + 1
                 /\ store' = [store EXCEPT ![dir] = DeleteFirst(@, doomed, n - 1)]
                 /\ cleanupLog' = [valid |-> TRUE, frequency |-> cur, listFailed |-> FALSE,
                                   listed |-> contents,
                                   attempted |-> SubSeq(Keys(doomed), 1, n),
                                   threw |-> TRUE]
                 /\ Failed("cleanup")
    /\ UNCHANGED <<clock, runOnStartup, singleShot, retention, result, cur, bnow, inLoop,
                   file, ticks, lag, seedLog, lastCheck, lastSuccess, seedSeen, iter>>

DeleteFile ==
    /\ pc = "unlink"
    /\ \/ /\ file' = "absent"
          /\ lastBackupTimes' = MarkSucceeded(lastBackupTimes, cur, bnow)
          /\ lastRun' = [valid |-> TRUE, frequency |-> cur, outcome |-> "ok", loop |-> inLoop]
          /\ lastSuccess' = IF inLoop THEN [lastSuccess EXCEPT ![cur] = bnow]
                            ELSE lastSuccess
          /\ lastFailed' = IF inLoop THEN [lastFailed EXCEPT ![cur] = FALSE]
                           ELSE lastFailed
          /\ tickLog' = CloseEntry(tickLog, "ok")
          /\ ReturnFromRunBackup
          /\ UNCHANGED faults
       \/ /\ faults < MaxFaults
          /\ faults' = faults + 1
          /\ file' = file
          /\ lastSuccess' = lastSuccess
          /\ Failed("unlink")
    /\ UNCHANGED <<clock, runOnStartup, singleShot, retention, store, result, cur, bnow,
                   inLoop, ticks, lag, seedLog, lastCheck, cleanupLog, seedSeen, iter>>

(***************************************************************************)
(* startBackupScheduler: seeding                                           *)
(***************************************************************************)
\* for (const [frequency, date] of initialBackupTimes) lastBackupTimes.set(...)
SeedInto(times, initialBackupTimes) ==
    [f \in BackupFrequency |->
        IF initialBackupTimes[f] # NoTime THEN initialBackupTimes[f] ELSE times[f]]

\* no try/catch around the listing of one frequency: the rejection leaves
\* getLastBackupTimes and startBackupScheduler and reaches the catch of main
getLastBackupTimes_Aborts ==
    /\ pc = "seed"
    /\ LET f == BACKUP_INTERVALS[idx].frequency
           last == idx = Len(BACKUP_INTERVALS)
       IN
       \/ /\ faults < MaxFaults
          /\ faults' = faults + 1
          /\ seedLog' = [seedLog EXCEPT ![f] = "err"]
          /\ seedSeen' = [seedSeen EXCEPT ![f] = [count |-> NoTime,
                                                 prior |-> lastBackupTimes[f]]]
          /\ pc' = "exited"
          /\ exitCode' = 1
          /\ UNCHANGED <<result, lastBackupTimes, idx>>
       \/ LET contents == store[f]
              found == [result EXCEPT ![f] = SeedValue(contents)]
          IN
          /\ seedLog' = [seedLog EXCEPT ![f] = "listed"]
          /\ seedSeen' = [seedSeen EXCEPT ![f] = [count |-> Len(contents),
                                                 prior |-> lastBackupTimes[f]]]
          /\ result' = IF last THEN NoTimes ELSE found
          /\ lastBackupTimes' = IF last THEN SeedInto(lastBackupTimes, found)
                                ELSE lastBackupTimes
          /\ pc' = IF last THEN "align" ELSE "seed"
          /\ idx' = IF last THEN 1 ELSE idx + 1
          /\ UNCHANGED <<faults, exitCode>>
    /\ UNCHANGED <<clock, runOnStartup, singleShot, retention, store, cur, bnow, inLoop,
                   file, ticks, lag, lastCheck, lastRun, cleanupLog,
                   lastSuccess, lastFailed, iter, tickLog>>

\* one iteration of the loop of getLastBackupTimes; the last one returns the
\* Map, which startBackupScheduler copies into lastBackupTimes
getLastBackupTimes ==
    /\ pc = "seed"
    /\ LET f == BACKUP_INTERVALS[idx].frequency
           last == idx = Len(BACKUP_INTERVALS)
       IN
       /\ \/ /\ faults < MaxFaults
             /\ faults' = faults + 1
             /\ seedLog' = [seedLog EXCEPT ![f] = "err"]
             /\ seedSeen' = [seedSeen EXCEPT ![f] = [count |-> NoTime,
                                                    prior |-> lastBackupTimes[f]]]
             /\ result' = IF last THEN NoTimes ELSE result
             /\ lastBackupTimes' = IF last THEN SeedInto(lastBackupTimes, result)
                                   ELSE lastBackupTimes
          \/ LET contents == store[f]
                 found == [result EXCEPT ![f] = SeedValue(contents)]
             IN
             /\ seedLog' = [seedLog EXCEPT ![f] = "listed"]
             /\ seedSeen' = [seedSeen EXCEPT ![f] = [count |-> Len(contents),
                                                    prior |-> lastBackupTimes[f]]]
             /\ result' = IF last THEN NoTimes ELSE found
             /\ lastBackupTimes' = IF last THEN SeedInto(lastBackupTimes, found)
                                   ELSE lastBackupTimes
             /\ UNCHANGED faults
       /\ pc' = IF last THEN "align" ELSE "seed"
       /\ idx' = IF last THEN 1 ELSE idx + 1
    /\ UNCHANGED <<clock, runOnStartup, singleShot, retention, store, cur, bnow, inLoop,
                   file, exitCode, ticks, lag, lastCheck, lastRun, cleanupLog,
                   lastSuccess, lastFailed, iter, tickLog>>

(***************************************************************************)
(* startBackupScheduler: the loop                                          *)
(***************************************************************************)
\* await sleep(ms): setTimeout fires after ms, or a little later
Sleep(ms) == clock' = clock + ms + lag

AlignToMinute ==
    /\ pc = "align"
    /\ ticks < MaxTicks
    /\ ticks' = ticks + 1
    /\ iter' = iter + 1
    /\ tickLog' = <<>>
    /\ Sleep(waitMs(clock))
    /\ pc' = "check"
    /\ idx' = 1
    /\ UNCHANGED <<runOnStartup, singleShot, retention, store, lastBackupTimes, result,
                   cur, bnow, inLoop, file, exitCode, faults, lag, seedLog,
                   lastCheck, lastRun, cleanupLog, lastSuccess, lastFailed, seedSeen>>

\* runBackup called without await: the loop goes on to the next interval
\* while the backup it started is still running
CheckInterval_NoAwait ==
    /\ pc = "check"
    /\ LET f == BACKUP_INTERVALS[idx].frequency
           due == shouldRunBackup(lastBackupTimes, f, clock)
       IN
       /\ lastCheck' = [valid |-> TRUE, frequency |-> f, now |-> clock,
                        last |-> lastBackupTimes[f], due |-> due,
                        success |-> lastSuccess[f], failed |-> lastFailed[f]]
       /\ tickLog' = Append(tickLog, [frequency |-> f, now |-> clock, due |-> due,
                                      outcome |-> ""])
       /\ pc' = IF idx < Len(BACKUP_INTERVALS) THEN "check" ELSE "sleep"
       /\ idx' = IF idx < Len(BACKUP_INTERVALS) THEN idx + 1 ELSE 1
       /\ UNCHANGED <<cur, bnow, inLoop, file, lastRun, cleanupLog>>
    /\ UNCHANGED <<clock, runOnStartup, singleShot, retention, store, lastBackupTimes,
                   result, exitCode, ticks, faults, lag, seedLog, lastSuccess,
                   lastFailed, seedSeen, iter>>

CheckInterval ==
    /\ pc = "check"
    /\ LET f == BACKUP_INTERVALS[idx].frequency
           due == shouldRunBackup(lastBackupTimes, f, clock)
       IN
       /\ lastCheck' = [valid |-> TRUE, frequency |-> f, now |-> clock,
                        last |-> lastBackupTimes[f], due |-> due,
                        success |-> lastSuccess[f], failed |-> lastFailed[f]]
       /\ tickLog' = Append(tickLog, [frequency |-> f, now |-> clock, due |-> due,
                                      outcome |-> ""])
       /\ IF due
          THEN /\ EnterRunBackup(f, TRUE)
               /\ UNCHANGED idx
          ELSE /\ pc' = IF idx < Len(BACKUP_INTERVALS) THEN "check" ELSE "sleep"
               /\ idx' = IF idx < Len(BACKUP_INTERVALS) THEN idx + 1 ELSE 1
               /\ UNCHANGED <<cur, bnow, inLoop, file, lastRun, cleanupLog>>
    /\ UNCHANGED <<clock, runOnStartup, singleShot, retention, store, lastBackupTimes,
                   result, exitCode, ticks, faults, lag, seedLog, lastSuccess,
                   lastFailed, seedSeen, iter>>

SleepOneMinute ==
    /\ pc = "sleep"
    /\ Sleep(MinuteMs)
    /\ pc' = "align"
    /\ UNCHANGED <<runOnStartup, singleShot, retention, store, lastBackupTimes, result,
                   idx, cur, bnow, inLoop, file, exitCode, ticks, faults, lag,
                   seedLog, lastCheck, lastRun, cleanupLog, lastSuccess,
                   lastFailed, seedSeen, iter, tickLog>>

(***************************************************************************)
(* The process dies at any point and is started again: the bucket and the  *)
(* clock survive, everything in memory is lost.                            *)
(***************************************************************************)
\* the supervisor starts the process again at the next half minute
RestartClock(now) ==
    now - (now % MinuteMs) + (IF now % MinuteMs < 30 * 1000 THEN 30 * 1000 ELSE 90 * 1000)

CrashAndRestart ==
    /\ pc \notin {"main", "exited"}
    /\ faults < MaxFaults
    /\ faults' = faults + 1
    /\ clock' = RestartClock(clock)
    /\ pc' = "main"
    /\ lastBackupTimes' = NoTimes
    /\ result' = NoTimes
    /\ idx' = 1
    /\ cur' = ""
    /\ bnow' = NoTime
    /\ inLoop' = FALSE
    /\ file' = "absent"
    /\ seedLog' = NoSeed
    /\ lastCheck' = NoCheck
    /\ lastRun' = NoRun
    /\ cleanupLog' = NoCleanup
    /\ lastSuccess' = NoTimes
    /\ lastFailed' = NoneFailed
    /\ seedSeen' = NoSeen
    /\ iter' = 0
    /\ tickLog' = <<>>
    /\ UNCHANGED <<runOnStartup, singleShot, retention, store, exitCode, ticks, lag>>

Next ==
    \/ Main
    \/ DumpToFile
    \/ Upload
    \/ cleanupOldBackups
    \/ DeleteFile
    \/ getLastBackupTimes
    \/ AlignToMinute
    \/ CheckInterval
    \/ SleepOneMinute
    \/ CrashAndRestart

Spec == Init /\ [][Next]_vars

(***************************************************************************)
(* SharedSpec: the bucket has another writer.  Once this process has       *)
(* seeded, before each iteration of its loop, someone else puts an object  *)
(* under one of the prefixes or removes the newest object of one; each     *)
(* such event counts against the same budget as the failures.              *)
(***************************************************************************)
\* startBackupScheduler has passed its seeding and is in the loop
AfterSeeding ==
    \/ pc \in {"align", "check", "sleep"}
    \/ pc \in {"dump", "upload", "cleanup", "unlink"} /\ inLoop

\* the object of the other writer: its key sorts before ours
ExternalObject(now) == [key |-> 0, lm |-> now]

ExternalWrite ==
    /\ AfterSeeding
    /\ pc = "align"
    /\ faults < MaxFaults
    /\ faults' = faults + 1
    /\ \E f \in BackupFrequency :
          \/ store' = [store EXCEPT ![f] =
                          <<ExternalObject(clock)>> \o SelectSeq(@, LAMBDA o : o.key # 0)]
          \/ /\ Len(store[f]) > 0
             /\ store' = [store EXCEPT ![f] = SubSeq(@, 1, Len(@) - 1)]
    /\ UNCHANGED <<pc, clock, runOnStartup, singleShot, retention, lastBackupTimes,
                   result, idx, cur, bnow, inLoop, file, exitCode, ticks, lag,
                   seedLog, lastCheck, lastRun, cleanupLog, lastSuccess, lastFailed,
                   seedSeen, iter, tickLog>>

SharedNext ==
    \/ Next
    \/ ExternalWrite

SharedSpec == Init /\ [][SharedNext]_vars

(***************************************************************************)
(* UnitSpec: seeding, the due check and the cleanup pass, each started in  *)
(* every state of a bounded family: a prefix that lists up to MaxListing   *)
(* objects in any order, with equal timestamps among them, and due-states  *)
(* at and around the boundary of each interval.                            *)
(***************************************************************************)
UnitTimes == {Epoch - 3 * InitSpacing, Epoch - 2 * InitSpacing, Epoch - InitSpacing}

UnitObjects == [key : 1..MaxListing, lm : UnitTimes]

\* the listings of n objects with distinct keys, in every order
UnitListings(n) ==
    {s \in [1..n -> UnitObjects] : \A i, j \in 1..n : i # j => s[i].key # s[j].key}

UnitFrame ==
    /\ runOnStartup = FALSE
    /\ singleShot = FALSE
    /\ result = NoTimes
    /\ file = "absent"
    /\ exitCode = NoTime
    /\ faults = 0
    /\ lag = 0
    /\ seedLog = NoSeed
    /\ lastCheck = NoCheck
    /\ lastRun = NoRun
    /\ cleanupLog = NoCleanup
    /\ lastSuccess = NoTimes
    /\ lastFailed = NoneFailed
    /\ seedSeen = NoSeen
    /\ iter = 0
    /\ tickLog = <<>>

\* startBackupScheduler is about to list the prefix of one frequency
UnitInitSeed ==
    /\ pc = "seed"
    /\ idx \in 1..Len(BACKUP_INTERVALS)
    /\ clock = Epoch
    /\ retention = MaxRetention
    /\ \E n \in 0..MaxListing : \E s \in UnitListings(n) :
          store = [f \in BackupFrequency |->
                      IF f = BACKUP_INTERVALS[idx].frequency THEN s ELSE <<>>]
    /\ lastBackupTimes = NoTimes
    /\ cur = ""
    /\ bnow = NoTime
    /\ inLoop = FALSE
    /\ ticks = 0

\* runBackup has uploaded and is about to clean up
UnitInitCleanup ==
    /\ pc = "cleanup"
    /\ idx \in 1..Len(BACKUP_INTERVALS)
    /\ cur = BACKUP_INTERVALS[idx].frequency
    /\ clock = Epoch + DumpMs + UploadMs
    /\ bnow = Epoch
    /\ inLoop = TRUE
    /\ retention \in 0..MaxRetention
    /\ \E n \in 1..MaxListing : \E s \in UnitListings(n) :
          store = [f \in BackupFrequency |-> IF f = cur THEN s ELSE <<>>]
    /\ lastBackupTimes = NoTimes
    /\ ticks = 1

\* the loop is about to ask shouldRunBackup, one ms before, at and after the
\* instant one interval after the recorded time
UnitInitCheck ==
    /\ pc = "check"
    /\ idx \in 1..Len(BACKUP_INTERVALS)
    /\ clock \in {Epoch - 1, Epoch, Epoch + 1}
    /\ retention = MaxRetention
    /\ store = [f \in BackupFrequency |-> <<>>]
    /\ \E known \in SUBSET BackupFrequency :
          lastBackupTimes = [f \in BackupFrequency |->
                                IF f \in known THEN Epoch - FindInterval(f).milliseconds
                                ELSE NoTime]
    /\ cur = ""
    /\ bnow = NoTime
    /\ inLoop = FALSE
    /\ ticks = 1

\* the objects another writer of the bucket may have left under the prefix:
\* older ones, and one the store has stamped with the very time it has
\* stamped our upload with
UnitSharedObjects == [key : 1..MaxListing, lm : UnitTimes \cup {Epoch + DumpMs + UploadMs}]

UnitSharedListings(n) ==
    {s \in [1..n -> UnitSharedObjects] : \A i, j \in 1..n : i # j => s[i].key # s[j].key}

\* runBackup has just uploaded, into a prefix that held fewer than MaxListing
\* objects, and is about to clean up; its object lists last, by its key
UnitInitUploaded ==
    /\ pc = "cleanup"
    /\ idx \in 1..Len(BACKUP_INTERVALS)
    /\ cur = BACKUP_INTERVALS[idx].frequency
    /\ clock = Epoch + DumpMs + UploadMs
    /\ bnow = Epoch
    /\ inLoop = TRUE
    /\ retention \in 0..MaxRetention
    /\ \E n \in 0..(MaxListing - 1) : \E s \in UnitSharedListings(n) :
          store = [f \in BackupFrequency |->
                      IF f = cur THEN PutObject(s, bnow, clock) ELSE <<>>]
    /\ lastBackupTimes = NoTimes
    /\ ticks = 1

UnitInit ==
    UnitFrame /\ (UnitInitSeed \/ UnitInitCleanup \/ UnitInitCheck \/ UnitInitUploaded)

UnitNext ==
    \/ getLastBackupTimes
    \/ cleanupOldBackups
    \/ CheckInterval

UnitSpec == UnitInit /\ [][UnitNext]_vars

TypeOK ==
    /\ pc \in {"main", "dump", "upload", "cleanup", "unlink", "seed", "align", "check",
               "sleep", "exited"}
    /\ \A f \in BackupFrequency : \A i \in 1..Len(store[f]) :
          store[f][i].lm >= 0 /\ store[f][i].lm <= clock
    /\ faults \in 0..MaxFaults
    /\ ticks \in 0..MaxTicks

(***************************************************************************)
(* Properties                                                              *)
(***************************************************************************)
\* the durations of the four cadences, written out
ExpectedMs(f) ==
    CASE f = "weekly" -> 604800000
      [] f = "daily"  -> 86400000
      [] f = "hourly" -> 3600000
      [] f = "10min"  -> 600000

LastModifiedOf(objects) == {objects[i].lm : i \in 1..Len(objects)}
KeysOf(objects) == {objects[i].key : i \in 1..Len(objects)}
MaxOf(S) == CHOOSE t \in S : \A u \in S : u <= t
Min2(a, b) == IF a < b THEN a ELSE b

\* C1: the due check answers true for a cadence with no recorded time, and
\* for a recorded time t exactly when now - t is at least the cadence's
\* duration; asking leaves the recorded time as it was.
C1_ShouldRunBackup ==
    lastCheck.valid =>
        /\ lastCheck.due = (\/ lastCheck.last = NoTime
                            \/ lastCheck.now - lastCheck.last >= ExpectedMs(lastCheck.frequency))
        /\ lastBackupTimes[lastCheck.frequency] = lastCheck.last

\* a check exactly on the boundary found the cadence due
C1_Witness ==
    /\ lastCheck.valid
    /\ lastCheck.last # NoTime
    /\ lastCheck.now - lastCheck.last = ExpectedMs(lastCheck.frequency)
    /\ lastCheck.due
    /\ lastCheck.frequency = "10min"

\* C4: a cleanup pass in which no delete fails, over M listed objects with
\* retention count N, attempts M - N deletions when M > N and none
\* otherwise; the objects it deleted are gone, min(M, N) survive, and no
\* survivor is older than a deleted object.
C4_CleanupKeepsNewest ==
    (cleanupLog.valid /\ ~cleanupLog.threw) =>
        LET f == cleanupLog.frequency
            M == Len(cleanupLog.listed)
            N == retention
            attempted == {cleanupLog.attempted[i] : i \in 1..Len(cleanupLog.attempted)}
            deleted == {cleanupLog.listed[i] : i \in {j \in 1..M :
                                                  cleanupLog.listed[j].key \in attempted}}
        IN /\ Len(cleanupLog.attempted) = (IF M > N THEN M - N ELSE 0)
           /\ Cardinality(attempted) = Len(cleanupLog.attempted)
           /\ attempted \subseteq KeysOf(cleanupLog.listed)
           /\ KeysOf(store[f]) = KeysOf(cleanupLog.listed) \ attempted
           /\ Len(store[f]) = Min2(M, N)
           /\ \A i \in 1..Len(store[f]) : \A d \in deleted : store[f][i].lm >= d.lm

\* three objects listed oldest last but one, one kept, two deleted
C4_Witness ==
    /\ cleanupLog.valid
    /\ ~cleanupLog.threw
    /\ retention = 1
    /\ Len(cleanupLog.listed) = 3
    /\ cleanupLog.listed[1].lm < cleanupLog.listed[3].lm
    /\ cleanupLog.listed[3].lm < cleanupLog.listed[2].lm
    /\ Len(cleanupLog.attempted) = 2
    /\ Len(store[cleanupLog.frequency]) = 1

\* C10: seeding sets a cadence to the greatest last-modified time among the
\* objects listed under its prefix, whatever the order of the listing.
C10_SeedIsMax ==
    (pc = "align" /\ ticks = 0) =>
        \A f \in BackupFrequency :
            (seedLog[f] = "listed" /\ Len(store[f]) > 0) =>
                lastBackupTimes[f] = MaxOf(LastModifiedOf(store[f]))

\* T2, T3, T1 listed in this order, seeded to T3
C10_Witness ==
    /\ pc = "align"
    /\ ticks = 0
    /\ \E f \in BackupFrequency :
          /\ seedLog[f] = "listed"
          /\ Len(store[f]) = 3
          /\ store[f][3].lm < store[f][1].lm
          /\ store[f][1].lm < store[f][2].lm
          /\ lastBackupTimes[f] = store[f][2].lm

\* C2: right after a trigger of the loop succeeds, the cadence is not due at
\* the recorded success instant, and no later tick triggers it before the
\* cadence's duration has elapsed since that instant.
C2_NoRetriggerBeforeDue ==
    /\ (lastRun.valid /\ lastRun.loop /\ lastRun.outcome = "ok") =>
          /\ lastSuccess[lastRun.frequency] # NoTime
          /\ ~shouldRunBackup(lastBackupTimes, lastRun.frequency,
                              lastSuccess[lastRun.frequency])
    /\ (lastCheck.valid /\ lastCheck.due /\ lastCheck.success # NoTime) =>
          lastCheck.now - lastCheck.success >= ExpectedMs(lastCheck.frequency)

\* a later tick asked about a cadence that had succeeded, and left it alone
C2_Witness ==
    /\ lastCheck.valid
    /\ lastCheck.success # NoTime
    /\ lastCheck.now > lastCheck.success
    /\ ~lastCheck.due
    /\ pc # "dump"

\* C3: a failed trigger leaves the cadence's due-state entry as it was before
\* the trigger, and every later tick finds the cadence due and triggers it
\* again, until a trigger of it succeeds.
C3_FailedTriggerRetried ==
    /\ (/\ lastRun.valid /\ lastRun.loop /\ lastRun.outcome # "ok"
        /\ lastCheck.valid /\ lastCheck.frequency = lastRun.frequency) =>
          lastBackupTimes[lastRun.frequency] = lastCheck.last
    /\ (lastCheck.valid /\ lastCheck.failed) =>
          /\ lastCheck.due
          /\ inLoop
          /\ cur = lastCheck.frequency
          /\ bnow = lastCheck.now

\* the tick after a failed trigger of a cadence that had a recorded time
\* triggers it again
C3_Witness ==
    /\ lastCheck.valid
    /\ lastCheck.failed
    /\ lastCheck.last # NoTime
    /\ lastCheck.due
    /\ ticks = 2
    /\ pc = "dump"
    /\ cur = lastCheck.frequency

\* C5: in a cleanup pass whose listing succeeded, a delete is attempted for
\* every object beyond the newest N, whichever deletes fail.
C5_EveryExcessObjectAttempted ==
    (cleanupLog.valid /\ ~cleanupLog.listFailed) =>
        LET M == Len(cleanupLog.listed) IN
        Len(cleanupLog.attempted) = (IF M > retention THEN M - retention ELSE 0)

\* C6: whenever a backup cycle of a cadence has completed successfully, at
\* most BACKUP_RETENTION_COUNT objects exist under that cadence's prefix.
C6_RetentionInvariant ==
    (lastRun.valid /\ lastRun.outcome = "ok") =>
        Len(store[lastRun.frequency]) <= retention

\* a successful cycle pruned a prefix of four objects down to two
C6_Witness ==
    /\ lastRun.valid
    /\ lastRun.outcome = "ok"
    /\ retention = 2
    /\ cleanupLog.valid
    /\ Len(cleanupLog.listed) = 4
    /\ Len(cleanupLog.attempted) = 2
    /\ Len(store[lastRun.frequency]) = 2

\* the three hourly objects of the scenario, last modified at T - 3h, T - 2h
\* and T - 1h with T = Epoch, as the store lists them
ScenarioObjects == [j \in 1..3 |-> InitObject("hourly", 4 - j, 0)]

\* C7 as stated: seeding yields Known(T - 1h) and the tick at T finds hourly
\* not due and triggers nothing.
C7_AsStated ==
    /\ (pc = "align" /\ ticks = 0 /\ seedLog["hourly"] = "listed"
        /\ store["hourly"] = ScenarioObjects) =>
          lastBackupTimes["hourly"] = Epoch - 3600000
    /\ (lastCheck.valid /\ lastCheck.frequency = "hourly" /\ lastCheck.now = Epoch
        /\ lastCheck.last = Epoch - 3600000 /\ retention = 2) =>
          ~lastCheck.due

\* C7, amended: with retention count 2 and hourly objects at T - 3h, T - 2h,
\* T - 1h, seeding yields Known(T - 1h); the tick at T already finds hourly
\* due, the elapsed hour being the whole duration; when its trigger succeeds
\* its cleanup has seen 4 objects, kept the newest 2 and deleted the 2
\* oldest, T - 3h and T - 2h.
C7_Amended ==
    /\ (pc = "align" /\ ticks = 0 /\ seedLog["hourly"] = "listed"
        /\ store["hourly"] = ScenarioObjects) =>
          lastBackupTimes["hourly"] = Epoch - 3600000
    /\ (lastCheck.valid /\ lastCheck.frequency = "hourly" /\ lastCheck.now = Epoch
        /\ lastCheck.last = Epoch - 3600000 /\ retention = 2) =>
          /\ lastCheck.due
          /\ cur = "hourly"
          /\ inLoop
          /\ bnow = Epoch
    /\ (/\ lastRun.valid /\ lastRun.frequency = "hourly" /\ lastRun.outcome = "ok"
        /\ retention = 2
        /\ Len(cleanupLog.listed) = 4
        /\ SubSeq(cleanupLog.listed, 1, 3) = ScenarioObjects) =>
          /\ {cleanupLog.attempted[i] : i \in 1..Len(cleanupLog.attempted)}
               = {ScenarioObjects[1].key, ScenarioObjects[2].key}
          /\ Len(cleanupLog.attempted) = 2
          /\ store["hourly"] = <<ScenarioObjects[3], cleanupLog.listed[4]>>
          /\ cleanupLog.listed[4].key = lastBackupTimes["hourly"]

\* the trigger of the tick at T has succeeded and pruned T - 3h and T - 2h
C7_Witness ==
    /\ lastCheck.valid /\ lastCheck.frequency = "hourly" /\ lastCheck.now = Epoch
    /\ lastCheck.last = Epoch - 3600000
    /\ lastCheck.due
    /\ retention = 2
    /\ lastRun.valid /\ lastRun.frequency = "hourly" /\ lastRun.outcome = "ok"
    /\ Len(cleanupLog.listed) = 4
    /\ SubSeq(cleanupLog.listed, 1, 3) = ScenarioObjects
    /\ Len(store["hourly"]) = 2

\* C8: in single-shot mode the process exits after one cycle without seeding
\* or entering the loop, with code 0 if the cycle succeeded and code 1 if its
\* dump or upload failed.
C8_SingleShotExitCode ==
    (singleShot /\ pc = "exited") =>
        /\ lastRun.valid
        /\ seedLog = NoSeed
        /\ ~lastCheck.valid
        /\ lastRun.outcome = "ok" => exitCode = 0
        /\ lastRun.outcome \in {"dump", "upload"} => exitCode = 1

\* C9: a tick never triggers a cadence while an object under its prefix is
\* younger than the cadence's duration, and a tick that finds a cadence not
\* due finds such an object.  Stated for the runs in which the listing of
\* the cadence at seeding did not fail and the retention count is at least 1.
C9_NoDoubleFireNoSkip ==
    /\ (/\ lastCheck.valid /\ lastCheck.due /\ pc = "dump" /\ inLoop
        /\ seedLog[cur] = "listed" /\ retention >= 1) =>
          \A i \in 1..Len(store[cur]) :
              lastCheck.now - store[cur][i].lm >= ExpectedMs(cur)
    /\ (lastCheck.valid /\ ~lastCheck.due /\ retention >= 1) =>
          \E i \in 1..Len(store[lastCheck.frequency]) :
              lastCheck.now - store[lastCheck.frequency][i].lm
                  < ExpectedMs(lastCheck.frequency)

SeedingContained ==
    /\ (pc = "align" /\ iter = 0) =>
          \A g \in BackupFrequency :
              /\ seedLog[g] \in {"listed", "err"}
              /\ (seedLog[g] = "listed" /\ Len(store[g]) > 0) =>
                    lastBackupTimes[g] = MaxOf(LastModifiedOf(store[g]))
    /\ (\E f \in BackupFrequency : seedLog[f] = "err") =>
          /\ pc \in {"seed", "align", "check", "dump", "upload", "cleanup", "unlink",
                     "sleep"}
          /\ exitCode = NoTime

\* C12 as stated: a cadence whose listing failed at seeding has no recorded
\* time when the loop starts and is due on the first iteration; the others
\* are seeded from their own listings and the loop is entered.
C12_AsStated ==
    /\ SeedingContained
    /\ (pc = "align" /\ iter = 0) =>
          \A f \in BackupFrequency :
              seedLog[f] = "err" => lastBackupTimes[f] = NoTime
    /\ (lastCheck.valid /\ iter = 1 /\ seedLog[lastCheck.frequency] = "err") =>
          lastCheck.due

\* C12, amended: a cadence whose listing failed at seeding keeps the entry it
\* had before seeding; that is no recorded time (due on the first
\* iteration), unless the startup backup has succeeded in this process, in
\* which case the cadence of that backup keeps the time it recorded.  The
\* others are seeded from their own listings and the loop is entered.
C12_Amended ==
    /\ SeedingContained
    /\ (pc = "align" /\ iter = 0) =>
          \A f \in BackupFrequency :
              seedLog[f] = "err" =>
                  /\ lastBackupTimes[f] = seedSeen[f].prior
                  /\ seedSeen[f].prior # NoTime => (runOnStartup /\ f = "10min")
    /\ (/\ lastCheck.valid /\ iter = 1
        /\ seedLog[lastCheck.frequency] = "err"
        /\ seedSeen[lastCheck.frequency].prior = NoTime) =>
          /\ lastCheck.last = NoTime
          /\ lastCheck.due
          /\ inLoop
          /\ cur = lastCheck.frequency

\* the listing of the daily prefix failed over a bucket that holds daily
\* objects; weekly and hourly were seeded, and the first iteration triggers
\* daily
C12_Witness ==
    /\ iter = 1
    /\ seedLog = [NoSeed EXCEPT !["weekly"] = "listed", !["daily"] = "err",
                                !["hourly"] = "listed", !["10min"] = "listed"]
    /\ Len(store["daily"]) > 0
    /\ lastBackupTimes["weekly"] # NoTime
    /\ lastBackupTimes["hourly"] # NoTime
    /\ lastCheck.valid
    /\ lastCheck.frequency = "daily"
    /\ lastCheck.last = NoTime
    /\ lastCheck.due
    /\ pc = "dump"
    /\ cur = "daily"

\* the stages of a trigger at which it can fail
FailureStages == {"dump", "upload", "cleanup", "unlink"}

\* C13: a trigger that fails at any stage returns to the loop: within an
\* iteration the cadences are evaluated one after the other with none left
\* out, whatever came of the triggers before them, each one found due is
\* triggered, and after the last one the loop sleeps and starts the next
\* iteration; the process does not exit.
C13_FailureContained ==
    /\ \A i \in 1..Len(tickLog) :
          /\ tickLog[i].frequency = BACKUP_INTERVALS[i].frequency
          /\ tickLog[i].outcome \in (IF tickLog[i].due THEN FailureStages \cup {"ok", ""}
                                     ELSE {""})
          /\ (tickLog[i].due /\ tickLog[i].outcome = "") =>
                /\ i = Len(tickLog)
                /\ pc \in {"dump", "upload", "cleanup", "unlink"}
                /\ inLoop
                /\ cur = tickLog[i].frequency
    /\ (pc = "check" /\ iter >= 1) => Len(tickLog) = idx - 1
    /\ (pc = "sleep" /\ iter >= 1) => Len(tickLog) = Len(BACKUP_INTERVALS)
    /\ (lastRun.valid /\ lastRun.loop /\ lastRun.outcome \in FailureStages) =>
          /\ pc \in {"check", "sleep", "align"}
          /\ exitCode = NoTime

\* the weekly trigger of an iteration failed, the daily trigger that followed
\* it in the same iteration succeeded, and the loop has started its next
\* iteration and found weekly due again
C13_Witness ==
    /\ iter = 2
    /\ lastFailed["weekly"]
    /\ lastSuccess["daily"] # NoTime
    /\ Len(tickLog) >= 1
    /\ tickLog[1].frequency = "weekly"
    /\ tickLog[1].due
    /\ tickLog[1].now > lastSuccess["daily"]

\* the outcomes of runBackup that lie behind its call of deleteFile
UnlinkAttempted == {"unlink", "ok"}

\* C14: whenever runBackup has returned from a trigger whose dump produced
\* the archive, deleteFile has been called for it, whether the upload and the
\* cleanup succeeded or failed; the archive is gone unless that delete
\* itself failed.
C14_ArtifactAlwaysDeleted ==
    (lastRun.valid /\ lastRun.outcome \in {"upload", "cleanup", "unlink", "ok"}) =>
        /\ lastRun.outcome \in UnlinkAttempted
        /\ lastRun.outcome # "unlink" => file = "absent"

\* C15: when the dump and the upload (with its cleanup) of a loop trigger
\* have succeeded and the delete of the local archive fails, the trigger's
\* `now` is recorded as the cadence's last success, and from then on, the
\* next iteration included, the cadence is not due until a trigger of the
\* loop starts.
C15_UnlinkFailureNotFatal ==
    (lastRun.valid /\ lastRun.loop /\ lastRun.outcome = "unlink") =>
        /\ lastBackupTimes[lastRun.frequency] = bnow
        /\ ~shouldRunBackup(lastBackupTimes, lastRun.frequency, clock)

\* the cadences, coarsest first
DeclaredOrder == <<"weekly", "daily", "hourly", "10min">>

\* the entries of the log of this iteration whose trigger has not returned
InProgress == {i \in 1..Len(tickLog) : tickLog[i].due /\ tickLog[i].outcome = ""}

\* C16: at most one trigger is in progress at any time; within an iteration
\* the cadences are evaluated, and those due triggered, in the order weekly,
\* daily, hourly, 10min; a cadence is evaluated only when the trigger of
\* every cadence before it has returned, so no earlier than the time that
\* trigger took after it started; the startup backup has returned before the
\* loop starts.
C16_SequentialInOrder ==
    /\ Cardinality(InProgress) <= 1
    /\ InProgress \subseteq {Len(tickLog)}
    /\ Len(tickLog) <= Len(DeclaredOrder)
    /\ \A i \in 1..Len(tickLog) : tickLog[i].frequency = DeclaredOrder[i]
    /\ \A i \in 1..(Len(tickLog) - 1) :
          tickLog[i + 1].now >=
              tickLog[i].now + (IF tickLog[i].due THEN DumpMs ELSE 0)
    /\ (pc \in {"dump", "upload", "cleanup", "unlink"}) =>
          IF inLoop
          THEN /\ InProgress = {Len(tickLog)}
               /\ cur = tickLog[Len(tickLog)].frequency
               /\ bnow = tickLog[Len(tickLog)].now
          ELSE /\ iter = 0
               /\ tickLog = <<>>
               /\ seedLog = NoSeed
    /\ (pc \notin {"dump", "upload", "cleanup", "unlink"}) => InProgress = {}

\* all four cadences were due in one iteration: weekly, daily and hourly have
\* run to their end one after the other, and 10min is running
C16_Witness ==
    /\ Len(tickLog) = 4
    /\ \A i \in 1..3 : tickLog[i].due /\ tickLog[i].outcome = "ok"
    /\ tickLog[4].due
    /\ tickLog[4].now >= tickLog[1].now + 3 * (DumpMs + UploadMs)
    /\ pc = "upload"
    /\ cur = "10min"

\* C17: once seeding is over, a step of the process changes the entry of a
\* cadence only when it is the last step of a trigger of that cadence whose
\* dump, upload, cleanup and local delete have all succeeded, and then to
\* that trigger's `now`; every other step, a put or a removal by another
\* writer of the bucket included, leaves the whole Map as it was.  (A
\* restart of the process seeds again.)
C17_DueStateFrame ==
    [][(AfterSeeding /\ pc' # "main") =>
          \A f \in BackupFrequency :
              lastBackupTimes'[f] # lastBackupTimes[f] =>
                  /\ pc = "unlink"
                  /\ cur = f
                  /\ inLoop
                  /\ cleanupLog.valid /\ ~cleanupLog.threw
                  /\ lastRun'.valid /\ lastRun'.outcome = "ok"
                  /\ lastRun'.frequency = f
                  /\ lastBackupTimes'[f] = bnow]_vars

\* another writer has put an object under a prefix after seeding, and a later
\* iteration triggers that cadence from the time seeding recorded, the newer
\* object unseen
C17_Witness ==
    /\ lastCheck.valid
    /\ lastCheck.due
    /\ lastCheck.last # NoTime
    /\ pc = "dump"
    /\ cur = lastCheck.frequency
    /\ lastBackupTimes[cur] = lastCheck.last
    /\ Len(store[cur]) > 0
    /\ store[cur][1].key = 0
    /\ store[cur][1].lm > lastCheck.last
    /\ lastCheck.now - store[cur][1].lm < ExpectedMs(cur)

\* C18: every time recorded as a cadence's last success by a trigger of the
\* loop lies on a minute boundary, also when another cadence's backup has run
\* before it in the same iteration.  Stated for a host whose timers fire
\* exactly when they are set to.
C18_MinuteAligned ==
    lag = 0 =>
        \A f \in BackupFrequency :
            lastSuccess[f] # NoTime =>
                /\ lastSuccess[f] % MinuteMs = 0
                /\ lastBackupTimes[f] = lastSuccess[f]

\* the positions in the listing of the latest cleanup pass of the object this
\* runBackup has uploaded, whose key carries the trigger's `now`
UploadedAt == {i \in 1..Len(cleanupLog.listed) : cleanupLog.listed[i].key = bnow}

\* C19 as stated: with a retention count of at least 1, when no object listed
\* under the prefix has a later last-modified time than the object uploaded
\* in this cycle, the cleanup of the cycle attempts no delete of that object
\* and it is still there afterwards.
C19_AsStated ==
    (/\ cleanupLog.valid /\ ~cleanupLog.listFailed /\ cleanupLog.frequency = cur
     /\ retention >= 1) =>
        \A i \in UploadedAt :
            (\A j \in 1..Len(cleanupLog.listed) :
                 cleanupLog.listed[j].lm <= cleanupLog.listed[i].lm) =>
                /\ \A k \in 1..Len(cleanupLog.attempted) : cleanupLog.attempted[k] # bnow
                /\ bnow \in KeysOf(store[cur])

\* C19, amended: the same, when every other object listed under the prefix
\* has an earlier last-modified time than the object uploaded in this cycle.
C19_Amended ==
    (/\ cleanupLog.valid /\ ~cleanupLog.listFailed /\ cleanupLog.frequency = cur
     /\ retention >= 1) =>
        \A i \in UploadedAt :
            (\A j \in 1..Len(cleanupLog.listed) :
                 j # i => cleanupLog.listed[j].lm < cleanupLog.listed[i].lm) =>
                /\ \A k \in 1..Len(cleanupLog.attempted) : cleanupLog.attempted[k] # bnow
                /\ bnow \in KeysOf(store[cur])

\* with retention count 1, the cleanup that followed an upload has deleted
\* the two older objects of the prefix and kept the one just uploaded
C19_Witness ==
    /\ cleanupLog.valid
    /\ ~cleanupLog.threw
    /\ cleanupLog.frequency = cur
    /\ retention = 1
    /\ Len(cleanupLog.listed) = 3
    /\ cleanupLog.listed[3].key = bnow
    /\ cleanupLog.listed[1].lm < cleanupLog.listed[3].lm
    /\ cleanupLog.listed[2].lm < cleanupLog.listed[3].lm
    /\ Len(cleanupLog.attempted) = 2
    /\ KeysOf(store[cur]) = {bnow}

\* C20: a cleanup pass lists the prefix of its own cadence and removes
\* objects of that prefix only: the objects under every other cadence's
\* prefix are after the pass what they were before it, whether the pass
\* ends or a delete of it fails.
C20_CleanupOwnPrefixOnly ==
    [][(pc = "cleanup" /\ pc' # "main") =>
          /\ \A g \in BackupFrequency \ {cur} : store'[g] = store[g]
          /\ KeysOf(store'[cur]) \subseteq KeysOf(store[cur])
          /\ cleanupLog'.valid
          /\ cleanupLog'.frequency = cur
          /\ ~cleanupLog'.listFailed => cleanupLog'.listed = store[cur]
          /\ KeysOf(store[cur]) \ KeysOf(store'[cur])
                \subseteq {cleanupLog'.attempted[i] : i \in 1..Len(cleanupLog'.attempted)}]_vars

\* the cleanup of a 10min backup has pruned its prefix to the retention
\* count, and the daily and weekly prefixes still hold more objects than
\* that, all of them older than the 10min object deleted last
C20_Witness ==
    /\ cleanupLog.valid
    /\ ~cleanupLog.threw
    /\ cleanupLog.frequency = "10min"
    /\ Len(cleanupLog.attempted) >= 1
    /\ Len(store["10min"]) = retention
    /\ Len(store["daily"]) > retention
    /\ Len(store["weekly"]) > retention
    /\ \A i \in 1..Len(store["daily"]) :
          store["daily"][i].key < cleanupLog.attempted[Len(cleanupLog.attempted)]

====
